---------------------------- MODULE Spec2Model ----------------------------
(***************************************************************************)
(* Model of ocr_helper.py: the command-line entry point (lines 40-46) and  *)
(* extract_text_from_image (lines 12-38).                                  *)
(*                                                                         *)
(* Strings are sequences of one-character strings, so that concatenation,  *)
(* prefixes and str.strip() are computed character by character.           *)
(* The two collaborators (PIL.Image.open and pytesseract.image_to_string)  *)
(* are the environment: each call returns, or raises, one of the outcomes  *)
(* the library documents, chosen nondeterministically.                     *)
(* Objects live as long as something refers to them (CPython reference     *)
(* counting): a frame's locals die with the frame, and a frame is pinned   *)
(* by the traceback of an exception that is propagating or still bound.    *)
(***************************************************************************)
EXTENDS Naturals, Integers, Sequences, FiniteSets, TLC

VARIABLES
    argv,        \* sys.argv: <<script name, argument, ...>>
    fs,          \* the filesystem: what each path refers to
    pc,          \* the statement the interpreter is at
    image_path,  \* main's image_path / the function's parameter
    image,       \* local `image` of extract_text_from_image
    text,        \* local `text` of extract_text_from_image
    raw,         \* what image_to_string returned on this run
    e,           \* the exception bound by `except Exception as e`
    raised,      \* the exception propagating out of a statement
    fault,       \* the fault the decode or OCR step raised on this run
    retval,      \* the value extract_text_from_image returned
    returned,    \* the function returned normally (a return statement ran)
    live,        \* decoded images that are still alive (not deallocated)
    stdout,      \* the characters written to standard output
    traceback,   \* the interpreter wrote an unhandled-exception trace
    calls,       \* the calls made so far, in order
    status       \* the process's exit status, -1 while it runs

vars == <<argv, fs, pc, image_path, image, text, raw, e, raised, fault,
          retval, returned, live, stdout, traceback, calls, status>>

----------------------------------------------------------------------------
\* Bounds of the model.

\* At most this many command-line arguments after the script name.
MaxArgs == 2

\* At most this many whitespace characters on each side of the OCR text.
MaxPad == 1

----------------------------------------------------------------------------
\* String literals of the program.

\* "ERROR: " (lines 17, 33, 37)
ErrorPrefix == <<"E", "R", "R", "O", "R", ":", " ">>

\* "Image file not found: " (line 17)
NotFoundMsg == <<"I", "m", "a", "g", "e", " ", "f", "i", "l", "e", " ", "n", "o", "t", " ", "f", "o", "u", "n", "d", ":", " ">>

\* "No text found in image" (line 33)
NoTextMsg == <<"N", "o", " ", "t", "e", "x", "t", " ", "f", "o", "u", "n", "d", " ", "i", "n", " ", "i", "m", "a", "g", "e">>

\* "Usage: python3 ocr_helper.py <image_path>" (line 42)
UsageLine == <<"U", "s", "a", "g", "e", ":", " ", "p", "y", "t", "h", "o", "n", "3", " ", "o", "c", "r", "_", "h", "e", "l", "p", "e", "r", ".", "p", "y", " ", "<", "i", "m", "a", "g", "e", "_", "p", "a", "t", "h", ">">>

\* sys.exit(1) (line 43)
EXIT_USAGE == 1

----------------------------------------------------------------------------
\* Inputs.

ScriptName == <<"o", "c", "r", "_", "h", "e", "l", "p", "e", "r", ".", "p", "y">>

Paths == { <<"/", "a", ".", "p", "n", "g">>, <<"/", "b">> }

\* What a path refers to; os.path.exists is true of a directory too.
Kinds == {"missing", "file", "dir"}

\* Python's None, and a value that is not None.
None == [some |-> FALSE, val |-> <<>>]
Some(v) == [some |-> TRUE, val |-> v]

\* The characters str.strip() removes (the ASCII ones).
Whitespace == {" ", "\t", "\n", "\r", "\f"}

RECURSIVE SeqsUpTo(_, _)
SeqsUpTo(S, n) ==
    IF n = 0 THEN { <<>> }
    ELSE LET shorter == SeqsUpTo(S, n - 1)
         IN  shorter \cup { Append(s, c) : s \in shorter, c \in S }

Pads == SeqsUpTo(Whitespace, MaxPad)

\* Recognised text without surrounding whitespace: nothing, a word, two
\* words, and text that itself starts with the error tag.
Cores == { <<>>,
           <<"a">>,
           <<"a", " ", "b">>,
           <<"a", "\n", "b">>,
           <<"E", "R", "R", "O", "R", ":">>,
           <<"E", "R", "R", "O", "R", ":", " ", "x">> }

\* The strings image_to_string may return.
RawTexts == { l \o c \o r : l \in Pads, c \in Cores, r \in Pads }

----------------------------------------------------------------------------
\* Exceptions.

NoExc == [cls |-> "none", description |-> <<>>]

Exc(cls, description) == [cls |-> cls, description |-> description]

\* The base class of each exception class the run can meet.
BaseOf(cls) ==
    CASE cls = "FileNotFoundError"       -> "OSError"
      [] cls = "IsADirectoryError"       -> "OSError"
      [] cls = "PermissionError"         -> "OSError"
      [] cls = "UnidentifiedImageError"  -> "OSError"
      [] cls = "TesseractNotFoundError"  -> "OSError"
      [] cls = "OSError"                 -> "Exception"
      [] cls = "TesseractError"          -> "RuntimeError"
      [] cls = "RuntimeError"            -> "Exception"
      [] cls = "Exception"               -> "BaseException"
      [] OTHER                           -> "object"

RECURSIVE IsSubclass(_, _)
IsSubclass(cls, of) ==
    IF cls = of THEN TRUE
    ELSE IF cls = "object" THEN FALSE
    ELSE IsSubclass(BaseOf(cls), of)

\* What Image.open(path) does, by what the path refers to: it returns a
\* handle, or raises.
DecodeFaults(kind) ==
    CASE kind = "missing" ->
            { Exc("FileNotFoundError", <<"[", "E", "r", "r", "n", "o", " ", "2", "]">>) }
      [] kind = "dir" ->
            { Exc("IsADirectoryError", <<"[", "E", "r", "r", "n", "o", " ", "2", "1", "]">>) }
      [] kind = "file" ->
            { Exc("UnidentifiedImageError", <<"c", "a", "n", "n", "o", "t", " ", "i", "d", "e", "n", "t", "i", "f", "y">>),
              Exc("PermissionError", <<"[", "E", "r", "r", "n", "o", " ", "1", "3", "]">>) }

CanDecode(kind) == kind = "file"

\* What image_to_string(image) may raise.
OcrFaults ==
    { Exc("TesseractNotFoundError", <<"n", "o", "t", " ", "i", "n", "s", "t", "a", "l", "l", "e", "d">>),
      Exc("TesseractError", <<"(", "1", ",", " ", "'", "E", "r", "r", "'", ")">>),
      Exc("RuntimeError", <<"t", "i", "m", "e", "o", "u", "t">>),
      Exc("RuntimeError", <<>>) }

----------------------------------------------------------------------------
\* Pure operations of the program.

\* The existence check left out.
PathExistsAlways(kind) == TRUE

\* os.path.exists(image_path) (line 16)
PathExists(kind) == kind # "missing"

\* The "not found" branch without its return: control falls through to the
\* decode.
NotFoundFallsThrough == "open"

\* The statement after the "not found" branch: `return None` (line 18).
AfterNotFound == "return"

\* An argument check that only rejects too few arguments.
BadArgCountTooFew(av) == Len(av) < 2

\* len(sys.argv) != 2 (line 41)
BadArgCount(av) == Len(av) # 2

\* A handler for OSError alone.
CatchesOSErrorOnly(x) == IsSubclass(x.cls, "OSError")

\* `except Exception` (line 36): the handler takes the exception iff its
\* class derives from Exception.
Catches(x) == IsSubclass(x.cls, "Exception")

\* str(e) (line 37)
StrOf(x) == x.description

\* f"ERROR: {str(e)}" (line 37)
ExceptionLine(x) == ErrorPrefix \o StrOf(x)

\* f"ERROR: Image file not found: {image_path}" (line 17)
NotFoundLine(path) == ErrorPrefix \o NotFoundMsg \o path

\* "ERROR: No text found in image" (line 33)
NoTextLine == ErrorPrefix \o NoTextMsg

\* print(s): s and a newline are appended to standard output.
PyPrint(out, s) == out \o s \o <<"\n">>

RECURSIVE LStrip(_)
LStrip(s) ==
    IF s # <<>> /\ Head(s) \in Whitespace THEN LStrip(Tail(s)) ELSE s

RECURSIVE RStrip(_)
RStrip(s) ==
    IF s # <<>> /\ s[Len(s)] \in Whitespace
    THEN RStrip(SubSeq(s, 1, Len(s) - 1))
    ELSE s

\* text.lstrip() in place of text.strip().
LStripOnly(s) == LStrip(s)

\* text.strip() (line 27)
Strip(s) == RStrip(LStrip(s))

\* `if text is not None:` in place of `if text:`.
TruthyNotNone(s) == TRUE

\* `if text:` (line 29): a string is true iff it is not empty.
Truthy(s) == Len(s) > 0

\* The success branch without its `return text`.
SuccessReturnsNone(s) == None

\* `return text` (line 31)
SuccessValue(s) == Some(s)

\* A handler that keeps the exception (and so its traceback) after the clause.
KeepsException(x) == x

\* Leaving the except clause unbinds e (`except ... as e` deletes the name
\* when the clause is left, lines 36-38).
AfterExceptClause(x) == NoExc

\* An exit status that reports a failed extraction.
ExitStatusFromResult(propagating, result) ==
    IF propagating # NoExc \/ ~result.some THEN 1 ELSE 0

\* The exit status at the end of the script (after line 46): main discards
\* the function's result; only an unhandled exception makes the status 1.
ExitStatus(propagating, result) == IF propagating # NoExc THEN 1 ELSE 0

\* The frame of the call can be freed once no exception pins it.
FramePinned(bound, propagating) == bound # NoExc \/ propagating # NoExc

----------------------------------------------------------------------------
\* The state after the interpreter has loaded the script.

Args == UNION { [1..n -> Paths] : n \in 0..MaxArgs }

Init ==
    /\ argv \in { <<ScriptName>> \o a : a \in Args }
    /\ fs \in [Paths -> Kinds]
    /\ pc = "main"
    /\ image_path = None
    /\ image = None
    /\ text = None
    /\ raw = None
    /\ e = NoExc
    /\ raised = NoExc
    /\ fault = NoExc
    /\ retval = None
    /\ returned = FALSE
    /\ live = {}
    /\ stdout = <<>>
    /\ traceback = FALSE
    /\ calls = <<>>
    /\ status = -1

----------------------------------------------------------------------------
\* Lines 41-46: the argument check, and the call.
Main ==
    /\ pc = "main"
    /\ IF BadArgCount(argv)
       THEN /\ stdout' = PyPrint(stdout, UsageLine)
            /\ calls' = Append(calls, "print_usage")
            /\ status' = EXIT_USAGE
            /\ pc' = "exited"
            /\ UNCHANGED image_path
       ELSE /\ image_path' = Some(argv[2])
            /\ pc' = "exists"
            /\ UNCHANGED <<stdout, calls, status>>
    /\ UNCHANGED <<argv, fs, image, text, raw, e, raised, fault, retval,
                   returned, live, traceback>>

\* Lines 16-18: the existence check.
CheckExists ==
    /\ pc = "exists"
    /\ IF ~PathExists(fs[image_path.val])
       THEN /\ stdout' = PyPrint(stdout, NotFoundLine(image_path.val))
            /\ calls' = calls \o <<"exists", "print_notfound">>
            /\ pc' = AfterNotFound
            /\ retval' = None
            /\ returned' = (AfterNotFound = "return")
       ELSE /\ calls' = Append(calls, "exists")
            /\ pc' = "open"
            /\ UNCHANGED <<stdout, retval, returned>>
    /\ UNCHANGED <<argv, fs, image_path, image, text, raw, e, raised, fault,
                   live, traceback, status>>

\* An exception leaves a statement of the try block: to the handler if the
\* except clause takes it, out of the function otherwise.
Raise(x) ==
    /\ fault' = x
    /\ raised' = x
    /\ pc' = IF Catches(x) THEN "except" ELSE "return"

\* Line 21: image = Image.open(image_path)
ImageOpen ==
    /\ pc = "open"
    /\ calls' = Append(calls, "open")
    /\ \E ok \in BOOLEAN :
         IF ok /\ CanDecode(fs[image_path.val])
         THEN /\ image' = Some("img")
              /\ live' = live \cup {"img"}
              /\ pc' = "ocr"
              /\ UNCHANGED <<fault, raised>>
         ELSE /\ \E x \in DecodeFaults(fs[image_path.val]) : Raise(x)
              /\ UNCHANGED <<image, live>>
    /\ UNCHANGED <<argv, fs, image_path, text, raw, e, retval, returned,
                   stdout, traceback, status>>

\* Line 24: text = pytesseract.image_to_string(image)
ImageToString ==
    /\ pc = "ocr"
    /\ calls' = Append(calls, "ocr")
    /\ \E ok \in BOOLEAN :
         IF ok
         THEN /\ \E r \in RawTexts :
                    /\ raw' = Some(r)
                    /\ text' = Some(r)
              /\ pc' = "strip"
              /\ UNCHANGED <<fault, raised>>
         ELSE /\ \E x \in OcrFaults : Raise(x)
              /\ UNCHANGED <<raw, text>>
    /\ UNCHANGED <<argv, fs, image_path, image, e, retval, returned, live,
                   stdout, traceback, status>>

\* Line 27: text = text.strip()
StripText ==
    /\ pc = "strip"
    /\ text' = Some(Strip(text.val))
    /\ pc' = "branch"
    /\ UNCHANGED <<argv, fs, image_path, image, raw, e, raised, fault,
                   retval, returned, live, stdout, traceback, calls, status>>

\* Lines 29-34: print the text, or report that there is none.
Branch ==
    /\ pc = "branch"
    /\ IF Truthy(text.val)
       THEN /\ stdout' = PyPrint(stdout, text.val)
            /\ calls' = Append(calls, "print_text")
            /\ retval' = SuccessValue(text.val)
       ELSE /\ stdout' = PyPrint(stdout, NoTextLine)
            /\ calls' = Append(calls, "print_notext")
            /\ retval' = None
    /\ returned' = TRUE
    /\ pc' = "return"
    /\ UNCHANGED <<argv, fs, image_path, image, text, raw, e, raised, fault,
                   live, traceback, status>>

\* Lines 36-38: the handler binds the exception, prints it, returns None.
Except ==
    /\ pc = "except"
    /\ stdout' = PyPrint(stdout, ExceptionLine(raised))
    /\ calls' = Append(calls, "print_exception")
    /\ e' = AfterExceptClause(raised)
    /\ raised' = NoExc
    /\ retval' = None
    /\ returned' = TRUE
    /\ pc' = "return"
    /\ UNCHANGED <<argv, fs, image_path, image, text, raw, fault, live,
                   traceback, status>>

\* The call ends: its frame is freed unless an exception pins it, and with
\* the frame the locals and the objects only they referred to.
Return ==
    /\ pc = "return"
    /\ IF FramePinned(e, raised)
       THEN UNCHANGED <<image, text, live>>
       ELSE /\ image' = None
            /\ text' = None
            /\ live' = {}
    /\ pc' = "main_end"
    /\ UNCHANGED <<argv, fs, image_path, raw, e, raised, fault, retval,
                   returned, stdout, traceback, calls, status>>

\* The end of the script (after line 46): status 0, or an unhandled
\* exception's trace and status 1.
Finish ==
    /\ pc = "main_end"
    /\ traceback' = (raised # NoExc)
    /\ status' = ExitStatus(raised, retval)
    /\ pc' = "exited"
    /\ UNCHANGED <<argv, fs, image_path, image, text, raw, e, raised, fault,
                   retval, returned, live, stdout, calls>>

Next ==
    \/ Main
    \/ CheckExists
    \/ ImageOpen
    \/ ImageToString
    \/ StripText
    \/ Branch
    \/ Except
    \/ Return
    \/ Finish

Spec == Init /\ [][Next]_vars

----------------------------------------------------------------------------
\* Vocabulary of the properties.

Range(s) == { s[i] : i \in 1..Len(s) }

StartsWith(s, p) == Len(s) >= Len(p) /\ SubSeq(s, 1, Len(p)) = p

Line(s) == s \o <<"\n">>

\* "ERROR:", the tag a caller looks for at the start of the output.
ErrorTag == <<"E", "R", "R", "O", "R", ":">>

\* The program was started with exactly one argument.
OneArg == Len(argv) = 2

\* extract_text_from_image has been left.
Left == pc \in {"return", "main_end", "exited"} /\ OneArg

\* The frame of the call is gone: control is back in the caller.
BackInMain == pc \in {"main_end", "exited"} /\ OneArg

Prints == {"print_notfound", "print_text", "print_notext", "print_exception",
           "print_usage"}

PrintCalls == SelectSeq(calls, LAMBDA c : c \in Prints)

StepCalls == SelectSeq(calls, LAMBDA c : c \in {"exists", "open", "ocr"})

AllWhitespace(s) == \A i \in 1..Len(s) : s[i] \in Whitespace

\* t is r without its leading and trailing whitespace: r is whitespace, t,
\* whitespace, and t neither starts nor ends with whitespace.
IsTrimOf(t, r) ==
    /\ t # <<>>
    /\ t[1] \notin Whitespace
    /\ t[Len(t)] \notin Whitespace
    /\ \E i \in 0..Len(r) :
         /\ i + Len(t) <= Len(r)
         /\ SubSeq(r, i + 1, i + Len(t)) = t
         /\ \A k \in 1..i : r[k] \in Whitespace
         /\ \A k \in (i + Len(t) + 1)..Len(r) : r[k] \in Whitespace

----------------------------------------------------------------------------
\* C1: a path that does not exist yields "ERROR: Image file not found:
\* <path>" and an immediate return of None, with neither Image.open nor
\* image_to_string called; whenever Image.open or image_to_string has been
\* called, the path exists.
C1_NotFoundReturnsAtOnce ==
    /\ (OneArg /\ pc \notin {"main", "exists"} /\ fs[argv[2]] = "missing") =>
          /\ pc \in {"return", "main_end", "exited"}
          /\ stdout = Line(ErrorPrefix \o NotFoundMsg \o argv[2])
          /\ calls = <<"exists", "print_notfound">>
          /\ returned
          /\ retval = None
    /\ ({"open", "ocr"} \cap Range(calls) # {}) =>
          /\ fs[image_path.val] # "missing"
          /\ calls[1] = "exists"

C1_Witness ==
    /\ pc = "exited"
    /\ OneArg
    /\ fs[argv[2]] = "missing"
    /\ stdout = Line(ErrorPrefix \o NotFoundMsg \o argv[2])

\* C2: no fault of the decode or OCR step leaves the function: once the
\* function is left after such a fault, it has returned None by a return
\* statement, no exception is propagating, and the output is "ERROR: "
\* followed by the fault's description.
C2_FaultsBecomeFailures ==
    /\ Left => raised = NoExc
    /\ ~traceback
    /\ (Left /\ fault # NoExc) =>
          /\ returned
          /\ retval = None
          /\ stdout = Line(ErrorPrefix \o fault.description)

C2_Witness ==
    /\ pc = "main_end"
    /\ fault.cls = "TesseractError"
    /\ "ocr" \in Range(calls)
    /\ returned
    /\ stdout = Line(ErrorPrefix \o fault.description)

\* C3: with exactly one argument the exit status is 0 whatever the outcome,
\* and no unhandled-exception trace is written.
C3_ExitStatusZero ==
    (pc = "exited" /\ OneArg) => (status = 0 /\ ~traceback)

C3_Witness ==
    /\ pc = "exited"
    /\ OneArg
    /\ status = 0
    /\ fault.cls = "UnidentifiedImageError"

\* C4: with an argument count other than one, the usage line is printed, the
\* exit status is 1, and the path is never checked, decoded or recognised.
C4_UsageOnBadArgCount ==
    (Len(argv) # 2) =>
        /\ StepCalls = <<>>
        /\ live = {}
        /\ pc \in {"main", "exited"}
        /\ pc = "exited" =>
              /\ stdout = Line(UsageLine)
              /\ status = 1
              /\ calls = <<"print_usage">>

C4_Witness ==
    /\ pc = "exited"
    /\ Len(argv) = 3
    /\ status = 1
    /\ stdout = Line(UsageLine)

\* C5: for every run with one argument, the output begins with "ERROR:" if
\* and only if the outcome is a failure (the function returned None).
C5_ErrorTagIffFailure ==
    (pc = "exited" /\ OneArg) =>
        (StartsWith(stdout, ErrorTag) <=> ~retval.some)

\* C6: when the OCR engine's string has a non-whitespace character, the
\* outcome is a success, the value returned is that string without its
\* leading and trailing whitespace, and the output is that value and one
\* newline.
C6_SuccessIsTrimmedText ==
    (Left /\ raw.some /\ ~AllWhitespace(raw.val)) =>
        /\ returned
        /\ retval.some
        /\ IsTrimOf(retval.val, raw.val)
        /\ stdout = Line(retval.val)

C6_Witness ==
    /\ pc = "exited"
    /\ raw = Some(<<" ", "a", " ", "b", "\n">>)
    /\ retval = Some(<<"a", " ", "b">>)
    /\ stdout = <<"a", " ", "b", "\n">>

\* C7: when the OCR engine's string is empty or all whitespace, the outcome
\* is the failure "ERROR: No text found in image"; a success never carries
\* the empty text.
C7_NoTextIsFailure ==
    /\ (Left /\ raw.some /\ AllWhitespace(raw.val)) =>
          /\ returned
          /\ retval = None
          /\ stdout = Line(ErrorPrefix \o NoTextMsg)
    /\ retval.some => retval.val # <<>>

C7_Witness ==
    /\ pc = "exited"
    /\ raw = Some(<<"\n">>)
    /\ retval = None
    /\ stdout = Line(ErrorPrefix \o NoTextMsg)

C9_SinglePass ==
    OneArg =>
        /\ Len(PrintCalls) <= 1
        /\ \E n \in 0..3 : StepCalls = SubSeq(<<"exists", "open", "ocr">>, 1, n)
        /\ pc = "ocr" => (image.some /\ image.val \in live)
        /\ "ocr" \in Range(calls) => (fault = NoExc \/ fault \in OcrFaults)
        /\ Left => Len(PrintCalls) = 1
        /\ (Left /\ retval.some) =>
              /\ PrintCalls = <<"print_text">>
              /\ stdout = Line(retval.val)
        /\ (Left /\ ~retval.some) =>
              /\ PrintCalls[1] \in {"print_notfound", "print_notext", "print_exception"}
              /\ \E m \in {NotFoundMsg \o argv[2], NoTextMsg, fault.description} :
                    stdout = Line(ErrorPrefix \o m)

C9_Witness ==
    /\ pc = "return"
    /\ calls = <<"exists", "open", "ocr", "print_text">>
    /\ retval.some

\* C10: the function returns a value other than None exactly when it printed
\* the text, that value is what it printed, and it returns None on the "not
\* found", "no text" and exception paths.
C10_ReturnMatchesOutput ==
    (Left /\ returned) =>
        /\ retval.some <=> "print_text" \in Range(calls)
        /\ retval.some => stdout = Line(retval.val)
        /\ ({"print_notfound", "print_notext", "print_exception"} \cap Range(calls) # {})
              => retval = None

C10_Witness ==
    /\ pc = "exited"
    /\ retval.some
    /\ "print_text" \in Range(calls)
    /\ stdout = Line(retval.val)

=============================================================================
